---- MODULE Spec2Model ----
(***************************************************************************)
(* A model of the toggl_track client library: the transport                *)
(* (TogglClient._request with RateLimiter and _handle_error), the          *)
(* constructor's choice of authentication, the pagination helper, the      *)
(* record constructors (from_dict), ProjectsEndpoint.list and the          *)
(* endpoint operations (get, delete, patch, list, start).                  *)
(*                                                                         *)
(* Python's None is the empty tuple and a present value v is <<v>>, so     *)
(* that an Optional field has one type.  Time is counted in clock ticks;   *)
(* min_interval (1.0 / requests_per_second) is a number of ticks.          *)
(***************************************************************************)
EXTENDS Integers, Sequences, FiniteSets, TLC

VARIABLES
    \* ---- transport (TogglClient._request, RateLimiter) ----
    pc,            \* position inside _request: "idle", "admitted", "sent", "received"
    now,           \* time.time()
    rate_limiter,  \* the RateLimiter's fields
    response,      \* the requests.Response of the call in progress, or None
    outcome,       \* how the last _request ended
    http_sent,     \* session.request calls made by the current _request
    slept,         \* the time.sleep argument of the last wait_if_needed
    admitted,      \* the instant the last wait_if_needed returned, or None
    \* ---- construction (TogglClient.__init__) ----
    env,           \* the environment variables TOGGL_*
    ctor,          \* the constructor call: whether made, its arguments, what it raised
    client,        \* the constructed TogglClient's session, or None
    wire,          \* the credentials on the last HTTP request sent, or None
    \* ---- pagination (auto_paginate, paginated_list, ProjectsEndpoint.list) ----
    server,        \* the server: how many items it holds and how it pages them
    call,          \* the call in progress: entry point and arguments
    pg,            \* auto_paginate's locals: pc, current_page, pages_fetched, response
    yielded,       \* the items yielded (or returned) so far, in order
    fetch_log,     \* the page requests made so far: <<page, per_page>> as sent
    \* ---- records (models.py) ----
    payload,       \* a JSON object of the API: key -> value (None: JSON null)
    record,        \* the record from_dict built from it, or None
    \* ---- endpoints (endpoints/*.py) ----
    op,            \* the endpoint call: its name and arguments
    result,        \* how the endpoint call ended: value returned or exception
    sent_log,      \* the HTTP requests the endpoint call sent, in order
    \* ---- threads sharing one client (RateLimiter.wait_if_needed) ----
    threads        \* each thread's position in wait_if_needed and its locals

transportVars == <<pc, now, rate_limiter, response, outcome, http_sent, slept, admitted>>
authVars == <<env, ctor, client>>
pageVars == <<server, call, pg, yielded, fetch_log>>
modelVars == <<payload, record>>
endpointVars == <<op, result, sent_log>>
vars == <<transportVars, authVars, wire, pageVars, modelVars, endpointVars, threads>>

\* ------------------------------------------------------------------ bounds
MaxTime == 4
MaxOversleep == 1
MaxInterval == 2
MaxItems == 4
MaxPerPage == 3
MaxPages == 2
MaxFetches == 3

\* ----------------------------------------------------------- Python values
None == <<>>
Some(v) == <<v>>
IsNone(x) == x = <<>>
Val(x) == x[1]

\* Truthiness of an Optional[str]: None and "" are false.
Truthy(x) == ~IsNone(x) /\ Val(x) # ""

\* int(s): the strings int() accepts, with their values; any other raises
\* ValueError.
IntTable == [s \in {"0", "5", "30"} |-> CASE s = "0" -> 0 [] s = "5" -> 5 [] s = "30" -> 30]
CanInt(s) == s \in DOMAIN IntTable
IntOf(s) == IntTable[s]

\* ------------------------------------------------------------- exceptions
TogglErrorSubclasses ==
    {"TogglAuthError", "TogglRateLimitError", "TogglQuotaError",
     "TogglNotFoundError", "TogglValidationError", "TogglServerError"}
IsTogglError(e) == e = "TogglError" \/ e \in TogglErrorSubclasses

\* ------------------------------------------------------------- responses
Statuses == {200, 400, 401, 402, 403, 404, 418, 429, 500, 503}
\* requests.Response.ok: raise_for_status raises for 400 <= status < 600.
Ok(status) == ~(400 <= status /\ status < 600)

BodyShapes == {"json_object_message", "json_object_error", "json_array", "text", "empty"}

\* response.json(): the parsed value, or raised (ok = FALSE) for a body that
\* is not JSON.
ResponseJson(body) ==
    CASE body = "json_object_message" -> [ok |-> TRUE, dict |-> TRUE, keys |-> {"message"}]
      [] body = "json_object_error" -> [ok |-> TRUE, dict |-> TRUE, keys |-> {"error"}]
      [] body = "json_array" -> [ok |-> TRUE, dict |-> FALSE, keys |-> {}]
      [] OTHER -> [ok |-> FALSE, dict |-> FALSE, keys |-> {}]

\* response.content is non-empty.
HasContent(body) == body # "empty"

\* Header names as the server writes them, and their lower-case form.
HRetryAfter == "Retry-After"
HQuotaRemaining == "X-Toggl-Quota-Remaining"
HQuotaResets == "X-Toggl-Quota-Resets-In"
Lower(name) ==
    CASE name = "Retry-After" -> "retry-after"
      [] name = "X-Toggl-Quota-Remaining" -> "x-toggl-quota-remaining"
      [] name = "X-Toggl-Quota-Resets-In" -> "x-toggl-quota-resets-in"
      [] OTHER -> name

\* requests' CaseInsensitiveDict.get: the lookup ignores case.
HeaderGet(headers, name) ==
    IF \E k \in DOMAIN headers : Lower(k) = Lower(name)
    THEN Some(headers[CHOOSE k \in DOMAIN headers : Lower(k) = Lower(name)])
    ELSE None

\* dict(response.headers): a plain dict with the keys as the server wrote
\* them; dict.get is an exact-match lookup.
DictGet(d, name) == IF name \in DOMAIN d THEN Some(d[name]) ELSE None

\* The header values the server may send ("absent": the header is not sent).
RetryAfterValues == {"absent", "5", "abc"}
QuotaRemainingValues == {"absent", "0", "5", "abc"}
QuotaResetsValues == {"absent", "30", "abc"}

\* The headers of a response: lower = TRUE when the server (or a proxy)
\* writes header names in lower case.
MkHeaders(lower, ra, qr, qs) ==
    LET W(n) == IF lower THEN Lower(n) ELSE n
        present == {p \in {<<HRetryAfter, ra>>, <<HQuotaRemaining, qr>>, <<HQuotaResets, qs>>} :
                        p[2] # "absent"}
    IN [k \in {W(p[1]) : p \in present} |->
            (CHOOSE p \in present : W(p[1]) = k)[2]]

\* The responses of the server.  Retry-After is sent with 429 only (no code
\* reads it for another status).
Responses ==
    {[status |-> s, body |-> b, headers |-> MkHeaders(l, ra, qr, qs)] :
        s \in Statuses, b \in BodyShapes, l \in BOOLEAN,
        ra \in {"absent"}, qr \in QuotaRemainingValues, qs \in QuotaResetsValues}
    \cup
    {[status |-> 429, body |-> b, headers |-> MkHeaders(l, ra, qr, qs)] :
        b \in BodyShapes, l \in BOOLEAN,
        ra \in RetryAfterValues, qr \in QuotaRemainingValues, qs \in QuotaResetsValues}

\* ------------------------------------------------------------ RateLimiter
RateLimiterInit(min_interval) ==
    [min_interval |-> min_interval, last_request_time |-> None,
     quota_remaining |-> None, quota_resets_in |-> None]

\* RateLimiter.wait_if_needed at clock t; time.sleep returns after at least
\* the requested time (over: how much later).
SleepTime(rl, t) ==
    IF ~IsNone(rl.last_request_time) /\ t - Val(rl.last_request_time) < rl.min_interval
    THEN rl.min_interval - (t - Val(rl.last_request_time))
    ELSE 0

\* A wait_if_needed that stamps last_request_time before it sleeps.
WaitIfNeededStampFirst(rl, t, over) ==
    LET sleep_time == SleepTime(rl, t)
        t2 == IF sleep_time > 0 THEN t + sleep_time + over ELSE t
    IN [rl |-> [rl EXCEPT !.last_request_time = Some(t)],
        now |-> t2, slept |-> sleep_time]

WaitIfNeeded(rl, t, over) ==
    LET sleep_time == SleepTime(rl, t)
        t2 == IF sleep_time > 0 THEN t + sleep_time + over ELSE t
    IN [rl |-> [rl EXCEPT !.last_request_time = Some(t2)],
        now |-> t2, slept |-> sleep_time]

\* RateLimiter.update_from_headers(headers): the limiter after the call and
\* the exception it raised, if any.
UpdateFromHeaders(rl, headers) ==
    LET quota_remaining == DictGet(headers, HQuotaRemaining)
        quota_resets == DictGet(headers, HQuotaResets)
    IN IF Truthy(quota_remaining) /\ ~CanInt(Val(quota_remaining))
       THEN [rl |-> rl, exc |-> Some("ValueError")]
       ELSE LET rl1 == IF Truthy(quota_remaining)
                       THEN [rl EXCEPT !.quota_remaining = Some(IntOf(Val(quota_remaining)))]
                       ELSE rl
            IN IF Truthy(quota_resets) /\ ~CanInt(Val(quota_resets))
               THEN [rl |-> rl1, exc |-> Some("ValueError")]
               ELSE [rl |-> IF Truthy(quota_resets)
                            THEN [rl1 EXCEPT !.quota_resets_in = Some(IntOf(Val(quota_resets)))]
                            ELSE rl1,
                     exc |-> None]

\* ----------------------------------------------------------- _handle_error
\* The error kind _handle_error picks for a status.
ErrorKind(status) ==
    CASE status = 400 -> "TogglValidationError"
      [] status = 401 -> "TogglAuthError"
      [] status = 402 -> "TogglQuotaError"
      [] status = 403 -> "TogglAuthError"
      [] status = 404 -> "TogglNotFoundError"
      [] status = 429 -> "TogglRateLimitError"
      [] status >= 500 -> "TogglServerError"
      [] OTHER -> "TogglError"

\* TogglClient._handle_error(response): the type of the exception raised.
HandleError(resp) ==
    LET json == ResponseJson(resp.body)
        \* body = response.json(), or {"message": response.text} when that raises
        is_dict == IF json.ok THEN json.dict ELSE TRUE
        opt(name) == HeaderGet(resp.headers, name)
        bad_int(name) == Truthy(opt(name)) /\ ~CanInt(Val(opt(name)))
    IN IF ~is_dict THEN "AttributeError"            \* body.get on a non-dict
       ELSE IF resp.status = 402 /\ (bad_int(HQuotaRemaining) \/ bad_int(HQuotaResets))
            THEN "ValueError"
       ELSE IF resp.status = 429 /\ bad_int(HRetryAfter)
            THEN "ValueError"
       ELSE ErrorKind(resp.status)

\* How a call ended: the exception's type and the function that raised it.
NoOutcome == [kind |-> "none", exc |-> "", by |-> ""]
Raise(e, by) == [kind |-> "raise", exc |-> e, by |-> by]
Return == [kind |-> "return", exc |-> "", by |-> ""]

\* ----------------------------------------------------------------- records
\* The state of the record variables when no record is modelled.
NoRecords ==
    /\ payload = <<>>
    /\ record = None

\* dict.get(key, default).
Get(data, key, default) == IF key \in DOMAIN data THEN data[key] ELSE default

\* The record types, by how from_dict reads the workspace id.
WidOrAlternate == {"TimeEntry", "Project", "Tag", "Task", "WorkspaceUser"}
WidOnly == {"Client", "Group"}
WorkspaceIdOnly == {"ProjectUser", "Webhook", "Expense"}
RecordTypes == WidOrAlternate \cup WidOnly \cup WorkspaceIdOnly

\* from_dict's workspace_id of each record type.
WorkspaceIdOf(type, data) ==
    IF type \in WidOrAlternate
    THEN Get(data, "workspace_id", Get(data, "wid", Some(0)))
    ELSE IF type \in WidOnly
    THEN Get(data, "wid", Some(0))
    ELSE Get(data, "workspace_id", None)

\* cls.from_dict(data): the fields modelled.  Only TimeEntry has a duration.
FromDict(type, data) ==
    [type |-> type,
     workspace_id |-> WorkspaceIdOf(type, data),
     duration |-> IF type = "TimeEntry" THEN Get(data, "duration", Some(0)) ELSE None]

\* --------------------------------------------------------------- endpoints
\* How an endpoint call ended; value is what it returned (None: Python's
\* None) and exc the type of the exception it raised.
NoResult == [kind |-> "none", value |-> None, exc |-> ""]
Returned(v) == [kind |-> "return", value |-> v, exc |-> ""]
Raised(e) == [kind |-> "raise", value |-> None, exc |-> e]

\* The state of the thread variable when the client has a single caller.
NoThreads == threads = <<>>

\* The state of the endpoint variables when no endpoint call is modelled.
NoEndpoint ==
    /\ op = [name |-> "none"]
    /\ result = NoResult
    /\ sent_log = <<>>

\* An is_running that counts a zero duration as running.
IsRunningOrZero(r) == Val(r.duration) <= 0

\* TimeEntry.is_running: `self.duration < 0` (TypeError when the duration is
\* None, which only a payload with "duration": null produces).
IsRunning(r) == Val(r.duration) < 0

\* -------------------------------------------------------------- pagination
\* The state of the pagination variables when no paginated call is modelled.
NoPagination ==
    /\ server = [n |-> 0, cap |-> 1, mode |-> "total_count"]
    /\ call = [fn |-> "none", auto |-> FALSE, page |-> 1, per_page |-> 1, max_pages |-> None]
    /\ pg = [pc |-> "done", current_page |-> 1, pages_fetched |-> 0, raised |-> None,
             response |-> None]
    /\ yielded = <<>>
    /\ fetch_log = <<>>

Min(a, b) == IF a <= b THEN a ELSE b

\* The items i..j of the server's list 1..n.
Slice(i, j) == [k \in 1..(IF j >= i THEN j - i + 1 ELSE 0) |-> i + k - 1]

\* How a server tells the client about further pages: a total_count on every
\* page, a has_more flag, nothing (an empty page past the end), or nothing
\* and no body at all past the end.
ServerModes == {"total_count", "has_more", "plain", "none_past_end"}

\* The server's answer to a request for page p with per_page pp: the p-th
\* slice of the size it really uses, min(pp, cap); None models an empty body.
ServerPage(srv, p, pp) ==
    LET size == Min(pp, srv.cap)
        first == (p - 1) * size + 1
        last == Min(p * size, srv.n)
        items == Slice(first, last)
    IN IF srv.mode = "none_past_end" /\ first > srv.n THEN None
       ELSE Some([items |-> items,
                  total_count |-> IF srv.mode = "total_count" THEN Some(srv.n) ELSE None,
                  has_more |-> IF srv.mode = "has_more" THEN Some(last < srv.n) ELSE None])

\* ProjectsEndpoint.list: the page size cap of the API.
PerPageCap == 200

\* ProjectsEndpoint.list: params, as far as paging goes.
ProjectsListParams(page, per_page) ==
    [page |-> page, per_page |-> Min(per_page, PerPageCap)]

\* fetch_page(p, pp) of ProjectsEndpoint.list: {**params, "page": p,
\* "per_page": pp}, the query of the request it sends.
FetchPageParams(params, p, pp) ==
    [params EXCEPT !.page = p, !.per_page = pp]

\* The query of the request fetch_func(p, pp) sends for call c.
WireParams(c, p, pp) ==
    IF c.fn = "projects.list"
    THEN FetchPageParams(ProjectsListParams(c.page, c.per_page), p, pp)
    ELSE [page |-> p, per_page |-> pp]

\* Truthiness of an Optional[int]: None and 0 are false.
TruthyInt(x) == ~IsNone(x) /\ Val(x) # 0

\* A max_pages check that lets one page more through.
MaxPagesReachedLate(max_pages, pages_fetched) ==
    TruthyInt(max_pages) /\ pages_fetched > Val(max_pages)

\* auto_paginate: `if max_pages and pages_fetched >= max_pages`.
MaxPagesReached(max_pages, pages_fetched) ==
    TruthyInt(max_pages) /\ pages_fetched >= Val(max_pages)

\* A total_count check that stops only once more than total_count items have
\* been asked for.
LastPageStrict(resp, current_page, per_page) ==
    \/ ~IsNone(resp.total_count) /\ current_page * per_page > Val(resp.total_count)
    \/ ~(IF IsNone(resp.has_more) THEN TRUE ELSE Val(resp.has_more))

\* auto_paginate: after a page, whether the loop ends (total_count reached,
\* or has_more false).
LastPage(resp, current_page, per_page) ==
    \/ ~IsNone(resp.total_count) /\ current_page * per_page >= Val(resp.total_count)
    \/ ~(IF IsNone(resp.has_more) THEN TRUE ELSE Val(resp.has_more))

\* ---------------------------------------------------- TogglClient.__init__
\* Python's `a or b`.
Or(a, b) == IF Truthy(a) THEN a ELSE b

\* The values a credential argument or environment variable may have.
CredValues(v) == {None, Some(""), Some(v)}

Envs ==
    [TOGGL_API_TOKEN : CredValues("envtoken"),
     TOGGL_EMAIL : CredValues("envmail"),
     TOGGL_PASSWORD : CredValues("envpass")]
CtorArgs ==
    [api_token : CredValues("token"), email : CredValues("mail"),
     password : CredValues("pass"), session_cookie : CredValues("cookie")]

NoEnv == [TOGGL_API_TOKEN |-> None, TOGGL_EMAIL |-> None, TOGGL_PASSWORD |-> None]

\* The Cookie header built from a session cookie.
CookieHeader(c) == <<"__Secure-accounts-session", c>>

\* A constructor that sets the Cookie header whenever a session cookie is
\* given (if in place of elif).
TogglClientInitAlwaysCookie(args, e) ==
    LET api_token == Or(args.api_token, e.TOGGL_API_TOKEN)
        email == Or(args.email, e.TOGGL_EMAIL)
        password == Or(args.password, e.TOGGL_PASSWORD)
        session_cookie == args.session_cookie
        cookie == IF Truthy(session_cookie) THEN Some(CookieHeader(Val(session_cookie))) ELSE None
    IN IF Truthy(api_token)
       THEN [raised |-> None,
             session |-> Some([auth |-> Some(<<Val(api_token), "api_token">>), cookie |-> cookie])]
       ELSE IF Truthy(email) /\ Truthy(password)
       THEN [raised |-> None,
             session |-> Some([auth |-> Some(<<Val(email), Val(password)>>), cookie |-> cookie])]
       ELSE IF Truthy(session_cookie)
       THEN [raised |-> None, session |-> Some([auth |-> None, cookie |-> cookie])]
       ELSE [raised |-> Some("TogglAuthError"), session |-> None]

\* TogglClient.__init__(api_token, email, password, session_cookie) under
\* environment e: the session's auth and Cookie header, or the exception.
TogglClientInit(args, e) ==
    LET api_token == Or(args.api_token, e.TOGGL_API_TOKEN)
        email == Or(args.email, e.TOGGL_EMAIL)
        password == Or(args.password, e.TOGGL_PASSWORD)
        session_cookie == args.session_cookie
    IN IF Truthy(api_token)
       THEN [raised |-> None,
             session |-> Some([auth |-> Some(<<Val(api_token), "api_token">>), cookie |-> None])]
       ELSE IF Truthy(email) /\ Truthy(password)
       THEN [raised |-> None,
             session |-> Some([auth |-> Some(<<Val(email), Val(password)>>), cookie |-> None])]
       ELSE IF Truthy(session_cookie)
       THEN [raised |-> None,
             session |-> Some([auth |-> None, cookie |-> Some(CookieHeader(Val(session_cookie)))])]
       ELSE [raised |-> Some("TogglAuthError"), session |-> None]

\* session.request puts the session's auth and headers on the request.
SessionRequest(session) == [auth |-> session.auth, cookie |-> session.cookie]

\* The constructor call that made the client of Spec: an API token given.
TokenArgs ==
    [api_token |-> Some("token"), email |-> None, password |-> None, session_cookie |-> None]

\* --------------------------------------------------------------- _request
Init ==
    /\ env = NoEnv
    /\ ctor = [called |-> TRUE, args |-> TokenArgs, raised |-> None]
    /\ client = TogglClientInit(TokenArgs, NoEnv).session
    /\ wire = None
    /\ NoPagination
    /\ NoRecords
    /\ NoEndpoint
    /\ NoThreads
    /\ pc = "idle"
    /\ now = 0
    /\ \E mi \in 1..MaxInterval : rate_limiter = RateLimiterInit(mi)
    /\ response = None
    /\ outcome = NoOutcome
    /\ http_sent = 0
    /\ slept = 0
    /\ admitted = None

\* Time passes.
Tick ==
    /\ now < MaxTime
    /\ now' = now + 1
    /\ UNCHANGED <<pc, rate_limiter, response, outcome, http_sent, slept, admitted, authVars, wire, pageVars, modelVars, endpointVars, threads>>

\* _request begins: wait_if_needed admits the call.
Admit ==
    /\ pc = "idle"
    /\ ~IsNone(client)
    /\ \E over \in 0..MaxOversleep :
         LET adm == WaitIfNeeded(rate_limiter, now, over)
         IN /\ adm.now <= MaxTime
            /\ now' = adm.now
            /\ rate_limiter' = adm.rl
            /\ slept' = adm.slept
            /\ admitted' = Some(adm.now)
    /\ pc' = "admitted"
    /\ http_sent' = 0
    /\ response' = None
    /\ outcome' = NoOutcome
    /\ UNCHANGED <<authVars, wire, pageVars, modelVars, endpointVars, threads>>

\* session.request: the HTTP request is sent.
Send ==
    /\ pc = "admitted"
    /\ wire' = Some(SessionRequest(Val(client)))
    /\ pc' = "sent"
    /\ http_sent' = http_sent + 1
    /\ UNCHANGED <<now, rate_limiter, response, outcome, slept, admitted, authVars, pageVars, modelVars, endpointVars, threads>>

\* A _request that looks at the quota headers of success responses only.
ReceiveSkipOnError ==
    /\ pc = "sent"
    /\ \E resp \in Responses :
         LET upd == IF Ok(resp.status) THEN UpdateFromHeaders(rate_limiter, resp.headers)
                    ELSE [rl |-> rate_limiter, exc |-> None]
         IN /\ response' = Some(resp)
            /\ rate_limiter' = upd.rl
            /\ IF IsNone(upd.exc)
               THEN pc' = "received" /\ outcome' = NoOutcome
               ELSE pc' = "idle" /\ outcome' = Raise(Val(upd.exc), "update_from_headers")
    /\ UNCHANGED <<now, http_sent, slept, admitted, authVars, wire, pageVars, modelVars, endpointVars, threads>>

\* session.request returns the server's response; update_from_headers.
Receive ==
    /\ pc = "sent"
    /\ \E resp \in Responses :
         LET upd == UpdateFromHeaders(rate_limiter, resp.headers)
         IN /\ response' = Some(resp)
            /\ rate_limiter' = upd.rl
            /\ IF IsNone(upd.exc)
               THEN pc' = "received" /\ outcome' = NoOutcome
               ELSE pc' = "idle" /\ outcome' = Raise(Val(upd.exc), "update_from_headers")
    /\ UNCHANGED <<now, http_sent, slept, admitted, authVars, wire, pageVars, modelVars, endpointVars, threads>>

\* A _request that sends the request again after a 429 or a 5xx.
FinishRetry ==
    /\ pc = "received"
    /\ LET resp == Val(response)
       IN IF (resp.status = 429 \/ resp.status >= 500) /\ http_sent < 2
          THEN /\ pc' = "sent"
               /\ http_sent' = http_sent + 1
               /\ outcome' = NoOutcome
          ELSE /\ pc' = "idle"
               /\ http_sent' = http_sent
               /\ outcome' = IF ~Ok(resp.status) THEN Raise(HandleError(resp), "_handle_error")
                              ELSE Return
    /\ UNCHANGED <<now, rate_limiter, response, slept, admitted, authVars, wire, pageVars, modelVars, endpointVars, threads>>

\* The rest of _request: the error is raised, or the body returned.
Finish ==
    /\ pc = "received"
    /\ LET resp == Val(response)
       IN outcome' =
            IF ~Ok(resp.status) THEN Raise(HandleError(resp), "_handle_error")
            ELSE IF HasContent(resp.body) /\ ~ResponseJson(resp.body).ok
                 THEN Raise("JSONDecodeError", "json")
                 ELSE Return
    /\ pc' = "idle"
    /\ UNCHANGED <<now, rate_limiter, response, http_sent, slept, admitted, authVars, wire, pageVars, modelVars, endpointVars, threads>>

Next == Tick \/ Admit \/ Send \/ Receive \/ Finish

Spec == Init /\ [][Next]_vars

\* ------------------------------------------------- claims on the transport
\* The last _request has ended and its response was not a success.
FailedResponse ==
    /\ pc = "idle"
    /\ ~IsNone(response)
    /\ ~Ok(Val(response).status)

\* C1: whenever _handle_error has run on a response, the exception it raised
\* is the kind fixed by the status alone (400 validation, 401/403 auth, 402
\* quota, 404 not found, 429 rate limit, >= 500 server, else the base
\* TogglError).
C1_KindByStatusAlone ==
    (FailedResponse /\ outcome.by = "_handle_error")
        => outcome.exc = ErrorKind(Val(response).status)

\* C2: every non-success response makes _request raise TogglError or one of
\* its subclasses, whatever the body and the headers; no other exception
\* type escapes.
C2_OnlyTogglErrorEscapes ==
    FailedResponse => (outcome.kind = "raise" /\ IsTogglError(outcome.exc))

\* C3: two consecutive admissions (returns of wait_if_needed) of one client
\* are at least min_interval apart, and the first request of a client is
\* admitted without waiting.
C3_MinIntervalBetweenAdmissions ==
    [][(pc = "idle" /\ pc' = "admitted") =>
          IF IsNone(admitted)
          THEN slept' = 0 /\ Val(admitted') = now
          ELSE Val(admitted') - Val(admitted) >= rate_limiter.min_interval]_vars

\* A request that had to sleep has been admitted.
C3_Witness ==
    /\ pc = "sent"
    /\ slept > 0
    /\ Val(admitted) = Val(rate_limiter.last_request_time)

TracksHeader(name, old, new, headers) ==
    LET h == HeaderGet(headers, name)
    IN IF IsNone(h) THEN new = old
       ELSE CanInt(Val(h)) => new = Some(IntOf(Val(h)))

\* C8: each response that carries a quota header sets the stored field to the
\* header's value, on success and error responses alike, and a response
\* without the header leaves the field unchanged (so the field is None until
\* a first such header is seen).
C8_QuotaTracksLatestHeader ==
    [][(pc = "sent" /\ pc' # "sent") =>
          /\ TracksHeader(HQuotaRemaining, rate_limiter.quota_remaining,
                          rate_limiter'.quota_remaining, Val(response').headers)
          /\ TracksHeader(HQuotaResets, rate_limiter.quota_resets_in,
                          rate_limiter'.quota_resets_in, Val(response').headers)]_vars

\* The quota fields of a rate limiter.
Quota(rl) == <<rl.quota_remaining, rl.quota_resets_in>>

\* What a step of _request may do, by its position.
StepInOrder ==
    /\ (http_sent' # http_sent /\ http_sent' > 0)
          => (pc = "admitted" /\ ~IsNone(admitted)
              /\ rate_limiter.last_request_time = admitted)
    /\ (Quota(rate_limiter') # Quota(rate_limiter))
          => (pc = "sent" /\ http_sent = 1)
    /\ (pc = "sent" /\ pc' # "sent")
          => rate_limiter' = UpdateFromHeaders(rate_limiter, Val(response').headers).rl
    /\ (outcome'.kind # "none" /\ outcome' # outcome /\ outcome'.by # "update_from_headers")
          => (pc = "received" /\ ~IsNone(response) /\ rate_limiter' = rate_limiter)
    /\ (pc = "idle" /\ pc' = "admitted" /\ FailedResponse)
          => Val(admitted') - Val(admitted) >= rate_limiter.min_interval

InitAuth ==
    /\ env \in Envs
    /\ ctor = [called |-> FALSE, args |-> TokenArgs, raised |-> None]
    /\ client = None
    /\ wire = None
    /\ NoPagination
    /\ NoRecords
    /\ NoEndpoint
    /\ NoThreads
    /\ pc = "idle"
    /\ now = 0
    /\ rate_limiter = RateLimiterInit(1)
    /\ response = None
    /\ outcome = NoOutcome
    /\ http_sent = 0
    /\ slept = 0
    /\ admitted = None

\* TogglClient(...) is called.
Construct ==
    /\ ~ctor.called
    /\ \E args \in CtorArgs :
         LET r == TogglClientInit(args, env)
         IN /\ ctor' = [called |-> TRUE, args |-> args, raised |-> r.raised]
            /\ client' = r.session
    /\ UNCHANGED <<env, wire, transportVars, pageVars, modelVars, endpointVars, threads>>

\* The constructed client sends a request: what session.request puts on it.
AuthSend ==
    /\ ~IsNone(client)
    /\ wire' = Some(SessionRequest(Val(client)))
    /\ UNCHANGED <<authVars, transportVars, pageVars, modelVars, endpointVars, threads>>

NextAuth == Construct \/ AuthSend

SpecAuth == InitAuth /\ [][NextAuth]_vars

\* The credentials available to a constructor call.
TokenGiven == Truthy(ctor.args.api_token) \/ Truthy(env.TOGGL_API_TOKEN)
BasicGiven ==
    /\ Truthy(ctor.args.email) \/ Truthy(env.TOGGL_EMAIL)
    /\ Truthy(ctor.args.password) \/ Truthy(env.TOGGL_PASSWORD)
CookieGiven == Truthy(ctor.args.session_cookie)
Arg1st(a, e) == IF Truthy(a) THEN Val(a) ELSE Val(e)

\* C7: construction selects exactly one mechanism by precedence: the API
\* token as basic auth (token, "api_token"); else email and password as basic
\* auth; else the session cookie as a Cookie header.  With a higher-precedence
\* credential no Cookie header is set, and with no credential construction
\* raises TogglAuthError and neither a client nor a request exists.
C7_AuthPrecedence ==
    ctor.called =>
        IF TokenGiven
        THEN /\ ctor.raised = None
             /\ client = Some([auth |-> Some(<<Arg1st(ctor.args.api_token, env.TOGGL_API_TOKEN),
                                               "api_token">>),
                               cookie |-> None])
        ELSE IF BasicGiven
        THEN /\ ctor.raised = None
             /\ client = Some([auth |-> Some(<<Arg1st(ctor.args.email, env.TOGGL_EMAIL),
                                               Arg1st(ctor.args.password, env.TOGGL_PASSWORD)>>),
                               cookie |-> None])
        ELSE IF CookieGiven
        THEN /\ ctor.raised = None
             /\ client = Some([auth |-> None,
                               cookie |-> Some(CookieHeader(Val(ctor.args.session_cookie)))])
        ELSE /\ ctor.raised = Some("TogglAuthError")
             /\ client = None
             /\ wire = None

\* A client built from an environment token and a session cookie has sent a
\* request with basic auth and no Cookie header.
C7_Witness ==
    /\ ctor.called
    /\ ctor.raised = None
    /\ ~Truthy(ctor.args.api_token) /\ Truthy(env.TOGGL_API_TOKEN)
    /\ CookieGiven
    /\ wire = Some([auth |-> Some(<<"envtoken", "api_token">>), cookie |-> None])

\* --------------------------------------------------------------- paginated
\* The entry points: auto_paginate, paginated_list (auto_fetch or one page)
\* and ProjectsEndpoint.list (auto_paginate or one page).
Entries ==
    {[fn |-> "auto_paginate", auto |-> TRUE]}
    \cup [fn : {"paginated_list", "projects.list"}, auto : BOOLEAN]

\* The per_page arguments: small ones, and for ProjectsEndpoint.list those
\* around the cap too.
PerPages(fn) ==
    (1..MaxPerPage) \cup (IF fn = "projects.list" THEN {PerPageCap, PerPageCap + 1} ELSE {})

InitPaginate ==
    /\ \E n \in 0..MaxItems, cap \in 1..MaxPerPage, mode \in ServerModes :
         server = [n |-> n, cap |-> cap, mode |-> mode]
    /\ \E e \in Entries, page \in 1..2, mp \in {None} \cup {Some(m) : m \in 0..MaxPages} :
         \E pp \in PerPages(e.fn) :
            /\ call = [fn |-> e.fn, auto |-> e.auto, page |-> page, per_page |-> pp,
                       max_pages |-> mp]
            /\ pg = [pc |-> IF e.auto THEN "loop" ELSE "single",
                     current_page |-> page, pages_fetched |-> 0, raised |-> None,
                     response |-> None]
    /\ yielded = <<>>
    /\ fetch_log = <<>>
    /\ NoRecords
    /\ NoEndpoint
    /\ NoThreads
    /\ env = NoEnv
    /\ ctor = [called |-> TRUE, args |-> TokenArgs, raised |-> None]
    /\ client = TogglClientInit(TokenArgs, NoEnv).session
    /\ wire = None
    /\ pc = "idle"
    /\ now = 0
    /\ rate_limiter = RateLimiterInit(1)
    /\ response = None
    /\ outcome = NoOutcome
    /\ http_sent = 0
    /\ slept = 0
    /\ admitted = None

\* One turn of auto_paginate's loop, in which fetch_func (if called) returns
\* r; pg.response is Some(r) from then on.
PaginateWith(r) ==
    /\ pg.pc = "loop"
    /\ IF MaxPagesReached(call.max_pages, pg.pages_fetched)
       THEN /\ pg' = [pg EXCEPT !.pc = "done"]
            /\ UNCHANGED <<yielded, fetch_log>>
       ELSE /\ fetch_log' = Append(fetch_log, WireParams(call, pg.current_page, call.per_page))
            /\ IF IsNone(r) \/ Len(Val(r).items) = 0
               THEN /\ pg' = [pg EXCEPT !.pc = "done", !.response = Some(r)]
                    /\ UNCHANGED yielded
               ELSE /\ yielded' = yielded \o Val(r).items
                    /\ pg' = IF LastPage(Val(r), pg.current_page, call.per_page)
                             THEN [pg EXCEPT !.pc = "done", !.response = Some(r),
                                             !.pages_fetched = pg.pages_fetched + 1]
                             ELSE [pg EXCEPT !.response = Some(r),
                                             !.pages_fetched = pg.pages_fetched + 1,
                                             !.current_page = pg.current_page + 1]
    /\ UNCHANGED <<server, call, transportVars, authVars, wire, modelVars, endpointVars, threads>>

\* One turn of auto_paginate's loop against the server.
PaginateStep == PaginateWith(ServerPage(server, pg.current_page, call.per_page))

\* One page: paginated_list without auto_fetch, ProjectsEndpoint.list
\* without auto_paginate.  response.get on an empty (None) response raises.
FetchSingle ==
    /\ pg.pc = "single"
    /\ LET r == ServerPage(server, call.page, call.per_page)
       IN /\ fetch_log' = Append(fetch_log, WireParams(call, call.page, call.per_page))
          /\ IF IsNone(r)
             THEN /\ pg' = [pg EXCEPT !.pc = "done", !.response = Some(r),
                                      !.raised = Some("AttributeError")]
                  /\ UNCHANGED yielded
             ELSE /\ pg' = [pg EXCEPT !.pc = "done", !.response = Some(r)]
                  /\ yielded' = Val(r).items
    /\ UNCHANGED <<server, call, transportVars, authVars, wire, modelVars, endpointVars, threads>>

NextPaginate == PaginateStep \/ FetchSingle

SpecPaginate == InitPaginate /\ [][NextPaginate]_vars

\* C4: for a server that holds N items, reports total_count = N on every page
\* and serves page k as the k-th slice of the size it really uses (the
\* requested per_page or less), auto_paginate from page 1 with max_pages=None
\* yields each of the N items exactly once, in server order.
C4_YieldsAllItems ==
    (/\ pg.pc = "done"
     /\ call.fn = "auto_paginate"
     /\ server.mode = "total_count"
     /\ call.page = 1
     /\ IsNone(call.max_pages))
        => yielded = Slice(1, server.n)

\* C5: with max_pages an integer m >= 0 (0 included), auto_paginate fetches
\* at most m pages and yields at most the items of m pages.
C5_MaxPagesBoundsFetches ==
    (call.auto /\ ~IsNone(call.max_pages))
        => /\ Len(fetch_log) <= Val(call.max_pages)
           /\ Len(yielded) <= Val(call.max_pages) * call.per_page

\* C10: every request ProjectsEndpoint.list sends has per_page <= 200, for
\* every per_page argument, with auto_paginate on or off.
C10_PerPageCapped ==
    call.fn = "projects.list"
        => \A i \in DOMAIN fetch_log : fetch_log[i].per_page <= PerPageCap

\* ceil(a / b) and max.
CeilDiv(a, b) == (a + b - 1) \div b
Max(a, b) == IF a >= b THEN a ELSE b

\* An auto_paginate run from page 1 without max_pages against a server that
\* reports total_count and honours the requested per_page.
HonouredTotalCount ==
    /\ call.auto
    /\ call.page = 1
    /\ IsNone(call.max_pages)
    /\ server.mode = "total_count"
    /\ call.per_page <= server.cap

\* C19: when the server honours the requested per_page and reports
\* total_count = N, auto_paginate from page 1 with max_pages=None calls
\* fetch_func exactly max(1, ceil(N / per_page)) times, with page numbers
\* 1, 2, ... and the same per_page on every call.
C19_FetchCount ==
    HonouredTotalCount =>
        LET pages == Max(1, CeilDiv(server.n, call.per_page))
        IN /\ \A i \in DOMAIN fetch_log :
                 fetch_log[i] = [page |-> i, per_page |-> call.per_page]
           /\ Len(fetch_log) <= pages
           /\ pg.pc = "done" => Len(fetch_log) = pages

\* Four items fetched two at a time: two fetches, and the run has ended.
C19_Witness ==
    /\ HonouredTotalCount
    /\ pg.pc = "done"
    /\ server.n = 4 /\ call.per_page = 2
    /\ Len(fetch_log) = 2
    /\ yielded = Slice(1, 4)

\* ------------------------------------------------- termination of the loop
\* What a server outside the client's control may return to a fetch: no body,
\* or any mix of items, total_count and has_more.
AnyResponses ==
    {None} \cup
    {Some([items |-> it, total_count |-> tc, has_more |-> hm]) :
        it \in {<<>>, <<1>>},
        tc \in {None, Some(0), Some(MaxPerPage), Some(MaxFetches * MaxPerPage + 1)},
        hm \in {None, Some(TRUE), Some(FALSE)}}

\* auto_paginate called on a server that holds finitely many items and pages
\* them (as in SpecPaginate), or on a server that returns anything ("any").
InitTerminate ==
    /\ \/ \E n \in 0..MaxItems, cap \in 1..MaxPerPage, mode \in ServerModes :
            server = [n |-> n, cap |-> cap, mode |-> mode]
       \/ server = [n |-> 0, cap |-> 1, mode |-> "any"]
    /\ \E page \in 1..2, pp \in 1..MaxPerPage, mp \in {None} \cup {Some(m) : m \in 0..MaxPages} :
         call = [fn |-> "auto_paginate", auto |-> TRUE, page |-> page, per_page |-> pp,
                 max_pages |-> mp]
         /\ pg = [pc |-> "loop", current_page |-> page, pages_fetched |-> 0, raised |-> None,
                  response |-> None]
    /\ yielded = <<>>
    /\ fetch_log = <<>>
    /\ NoRecords
    /\ NoEndpoint
    /\ NoThreads
    /\ env = NoEnv
    /\ ctor = [called |-> TRUE, args |-> TokenArgs, raised |-> None]
    /\ client = TogglClientInit(TokenArgs, NoEnv).session
    /\ wire = None
    /\ pc = "idle"
    /\ now = 0
    /\ rate_limiter = RateLimiterInit(1)
    /\ response = None
    /\ outcome = NoOutcome
    /\ http_sent = 0
    /\ slept = 0
    /\ admitted = None

\* A turn of the loop against a paging server.
PaginateHonest ==
    /\ server.mode # "any"
    /\ PaginateStep

\* A turn of the loop against a server that returns anything; the run is cut
\* after MaxFetches fetches.
PaginateAny ==
    /\ server.mode = "any"
    /\ MaxPagesReached(call.max_pages, pg.pages_fetched) \/ Len(fetch_log) < MaxFetches
    /\ \E r \in AnyResponses : PaginateWith(r)

NextTerminate == PaginateHonest \/ PaginateAny

\* The consumer keeps iterating: the loop takes its next turn.
SpecTerminate == InitTerminate /\ [][NextTerminate]_vars /\ WF_vars(NextTerminate)

\* A response after which nothing more is to be fetched: empty or None, no
\* items, has_more false, or total_count <= page * per_page.
StopResponse(r, page, per_page) ==
    \/ IsNone(r)
    \/ Len(Val(r).items) = 0
    \/ Val(r).has_more = Some(FALSE)
    \/ ~IsNone(Val(r).total_count) /\ Val(Val(r).total_count) <= page * per_page

\* The last fetch of the run got a stop response.
LastFetchSaidStop ==
    /\ Len(fetch_log) > 0
    /\ StopResponse(Val(pg.response), fetch_log[Len(fetch_log)].page, call.per_page)

\* C18: auto_paginate terminates.  With a positive max_pages it ends after at
\* most max_pages fetches whatever the server returns; with max_pages=None it
\* ends as soon as a fetch returns an empty/None response, no items,
\* has_more = false or a total_count <= current_page * per_page; and against
\* every server that holds finitely many items and returns an empty page past
\* the end it eventually ends.
C18_AutoPaginateTerminates ==
    /\ [](TruthyInt(call.max_pages) => Len(fetch_log) <= Val(call.max_pages))
    /\ TruthyInt(call.max_pages) => <>(pg.pc = "done")
    /\ []((IsNone(call.max_pages) /\ LastFetchSaidStop) => pg.pc = "done")
    /\ server.mode # "any" => <>(pg.pc = "done")

\* max_pages = 2 ended a run against a server that kept announcing more.
C18_Witness ==
    /\ server.mode = "any"
    /\ call.max_pages = Some(2)
    /\ pg.pc = "done"
    /\ Len(fetch_log) = 2
    /\ ~LastFetchSaidStop

\* ----------------------------------------------------------------- records
\* The payloads: any subset of the keys, each with null or an integer.
PayloadKeys == {"workspace_id", "wid", "duration"}
JsonValues == {None, Some(0 - 3), Some(0), Some(7)}
Payloads == UNION {[K -> JsonValues] : K \in SUBSET PayloadKeys}

InitRecords ==
    /\ payload \in Payloads
    /\ record = None
    /\ NoPagination
    /\ NoEndpoint
    /\ NoThreads
    /\ env = NoEnv
    /\ ctor = [called |-> TRUE, args |-> TokenArgs, raised |-> None]
    /\ client = TogglClientInit(TokenArgs, NoEnv).session
    /\ wire = None
    /\ pc = "idle"
    /\ now = 0
    /\ rate_limiter = RateLimiterInit(1)
    /\ response = None
    /\ outcome = NoOutcome
    /\ http_sent = 0
    /\ slept = 0
    /\ admitted = None

\* A record is built from the payload.
BuildRecord ==
    /\ \E type \in RecordTypes : record' = Some(FromDict(type, payload))
    /\ UNCHANGED <<payload, transportVars, authVars, wire, pageVars, endpointVars, threads>>

NextRecords == BuildRecord

SpecRecords == InitRecords /\ [][NextRecords]_vars

\* C9: from_dict of TimeEntry, Project, Client, Tag, Task, Group and
\* WorkspaceUser yields the value of "workspace_id" when that key is present,
\* otherwise the value of "wid" when present, otherwise 0.
C9_WorkspaceIdAlternateKey ==
    (~IsNone(record) /\ Val(record).type \in WidOrAlternate \cup WidOnly)
        => Val(record).workspace_id =
              IF "workspace_id" \in DOMAIN payload THEN payload["workspace_id"]
              ELSE IF "wid" \in DOMAIN payload THEN payload["wid"]
              ELSE Some(0)

\* The time entry built from the payload, when its duration is a number.
TimeEntryBuilt ==
    /\ ~IsNone(record)
    /\ Val(record).type = "TimeEntry"
    /\ ~IsNone(Val(record).duration)

\* C16: a time entry is running exactly when its duration is negative, and a
\* TimeEntry built by from_dict from a payload without a duration key has
\* duration 0 and is not running.
C16_RunningIffNegativeDuration ==
    TimeEntryBuilt =>
        IF "duration" \in DOMAIN payload
        THEN /\ Val(record).duration = payload["duration"]
             /\ IsRunning(Val(record)) <=> Val(payload["duration"]) < 0
        ELSE /\ Val(record).duration = Some(0)
             /\ ~IsRunning(Val(record))

\* A time entry built from a payload with duration -3 is running.
C16_Witness ==
    /\ TimeEntryBuilt
    /\ "duration" \in DOMAIN payload
    /\ payload["duration"] = Some(0 - 3)
    /\ IsRunning(Val(record))

\* --------------------------------------------------------------- endpoints
\* The values an endpoint returns, as <<kind, detail>>: None, True, the parsed
\* JSON of a response body, a record built by from_dict.
PyNone == <<"None", "">>
PyTrue == <<"True", "">>
PyFalse == <<"False", "">>
Json(body) == <<"json", body>>
Record(type) == <<"record", type>>

\* Truthiness and type of a value _request returned: {} is a dict and false.
TruthyValue(v) == v[1] = "json" /\ v[2] # "json_object_empty"
IsDictValue(v) == v[1] = "json" /\ ResponseJson(v[2]).dict

\* The `data` argument of _request: a dict (key -> Optional value) or a list.
DictData(d) == Some([type |-> "dict", val |-> d])
ListData(l) == Some([type |-> "list", val |-> l])
\* Truthiness of `data`: None, {} and [] are false.
TruthyData(data) ==
    /\ ~IsNone(data)
    /\ IF Val(data).type = "list" THEN Len(Val(data).val) > 0
       ELSE DOMAIN Val(data).val # {}

\* clean_params(params): the dict without its None values.
CleanParams(d) == [k \in {j \in DOMAIN d : ~IsNone(d[j])} |-> d[k]]

\* The responses of the server to an endpoint call: those of Responses with
\* the header names as documented, and the body {} as well.
EndpointBodyShapes == BodyShapes \cup {"json_object_empty"}
EndpointResponses ==
    {[status |-> s, body |-> b, headers |-> MkHeaders(FALSE, "absent", qr, "absent")] :
        s \in Statuses, b \in EndpointBodyShapes, qr \in {"absent", "5", "abc"}}
    \cup
    {[status |-> 429, body |-> b, headers |-> MkHeaders(FALSE, "abc", "absent", "absent")] :
        b \in EndpointBodyShapes}

\* TogglClient._request(method, url, data=data) as one step, at clock t with
\* the server answering resp: the limiter and the clock after it, the HTTP
\* requests it sent and how it ended.
Request(rl, t, over, method, url, data, resp) ==
    LET adm == WaitIfNeeded(rl, t, over)
    IN IF TruthyData(data) /\ Val(data).type = "list"
       THEN \* clean_params(data): a list has no .items()
            [rl |-> adm.rl, now |-> adm.now, sent |-> <<>>, out |-> Raised("AttributeError")]
       ELSE LET json == IF TruthyData(data) THEN DictData(CleanParams(Val(data).val)) ELSE None
                upd == UpdateFromHeaders(adm.rl, resp.headers)
            IN [rl |-> upd.rl, now |-> adm.now,
                sent |-> <<[method |-> method, url |-> url, json |-> json]>>,
                out |-> IF ~IsNone(upd.exc) THEN Raised(Val(upd.exc))
                        ELSE IF ~Ok(resp.status) THEN Raised(HandleError(resp))
                        ELSE IF ~HasContent(resp.body) THEN Returned(PyNone)
                        ELSE IF ResponseJson(resp.body).ok THEN Returned(Json(resp.body))
                        ELSE Raised("JSONDecodeError")]

\* An endpoint that raised before it called _request.
RaisedBeforeRequest(rl, t, e) == [rl |-> rl, now |-> t, sent |-> <<>>, out |-> Raised(e)]

\* r with its outcome replaced (what the endpoint makes of _request's).
WithOut(r, out) == [r EXCEPT !.out = out]

\* A validator that lets 0 pass.
ValidIdAllowZero(x) == ~IsNone(x) /\ Val(x) >= 0

\* validate_workspace_id, validate_project_id, validate_time_entry_id.
ValidId(x) == ~IsNone(x) /\ Val(x) > 0

\* The limits on bulk calls.
MaxPatchTimeEntries == 100
MaxProjectIds == 200

\* ",".join(map(str, ids)) keeps the ids and their order.
IdList(n) == [i \in 1..n |-> i]

\* The get-by-id operations with the record type each builds.
GetRecordType ==
    [n \in {"time_entries.get", "projects.get", "clients.get", "tags.get", "tasks.get",
            "groups.get", "webhooks.get", "expenses.get", "workspaces.get"} |->
        CASE n = "time_entries.get" -> "TimeEntry"
          [] n = "projects.get" -> "Project"
          [] n = "clients.get" -> "Client"
          [] n = "tags.get" -> "Tag"
          [] n = "tasks.get" -> "Task"
          [] n = "groups.get" -> "Group"
          [] n = "webhooks.get" -> "Webhook"
          [] n = "expenses.get" -> "Expense"
          [] n = "workspaces.get" -> "Workspace"]
GetOps == DOMAIN GetRecordType
DeleteOps ==
    {"time_entries.delete", "projects.delete", "project_users.delete", "clients.delete",
     "tags.delete", "tasks.delete", "groups.delete", "webhooks.delete", "expenses.delete"}
PatchOps == {"time_entries.patch", "project_users.patch"}

\* Which arguments an operation validates, in the order it validates them:
\* workspace_id first, then the resource id.
ValidatesWorkspace(name) ==
    name \notin {"time_entries.get", "time_entries.delete", "time_entries.patch",
                 "time_entries.start"}
ValidatesId(name) ==
    name \in {"time_entries.get", "time_entries.delete", "projects.get", "projects.delete"}
\* The validators of operation o pass.
Validated(o) ==
    /\ ValidatesWorkspace(o.name) => ValidId(o.ws)
    /\ ValidatesId(o.name) => ValidId(o.id)

\* The URL of a resource: the workspace (None for /me/...), the collection
\* and the id or ids.
Url(ws, collection, ids) == [ws |-> ws, collection |-> collection, ids |-> ids]
Collection(name) ==
    CASE name \in {"time_entries.get", "time_entries.delete", "time_entries.patch",
                   "time_entries.start"} -> "time_entries"
      [] name \in {"projects.get", "projects.delete"} -> "projects"
      [] name \in {"project_users.delete", "project_users.patch", "project_users.list"}
            -> "project_users"
      [] name \in {"clients.get", "clients.delete"} -> "clients"
      [] name \in {"tags.get", "tags.delete"} -> "tags"
      [] name \in {"tasks.get", "tasks.delete"} -> "tasks"
      [] name \in {"groups.get", "groups.delete"} -> "groups"
      [] name \in {"webhooks.get", "webhooks.delete"} -> "webhooks"
      [] name \in {"expenses.get", "expenses.delete"} -> "expenses"
      [] OTHER -> ""

\* A get that turns only TogglNotFoundError into None.
GetResultCatchNotFound(type, out) ==
    IF out.kind = "raise"
    THEN (IF out.exc = "TogglNotFoundError" THEN Returned(PyNone) ELSE out)
    ELSE IF ~TruthyValue(out.value) THEN Returned(PyNone)
    ELSE IF ~IsDictValue(out.value) THEN Raised("AttributeError")
    ELSE Returned(Record(type))

\* get(...): what the try/except around _get and from_dict returns.
GetResult(type, out) ==
    IF out.kind = "raise" THEN Returned(PyNone)              \* except Exception
    ELSE IF ~TruthyValue(out.value) THEN Returned(PyNone)    \* `if data else None`
    ELSE IF ~IsDictValue(out.value) THEN Returned(PyNone)    \* from_dict raised
    ELSE Returned(Record(type))

\* A get-by-id operation.
GetById(o, rl, t, over, resp) ==
    IF ~Validated(o) THEN RaisedBeforeRequest(rl, t, "ValueError")
    ELSE LET url == IF o.name = "time_entries.get"
                    THEN Url(None, "me/time_entries", <<o.id>>)
                    ELSE IF o.name = "workspaces.get"
                    THEN Url(o.ws, "", <<>>)
                    ELSE Url(o.ws, Collection(o.name), <<o.id>>)
             r == Request(rl, t, over, "GET", url, None, resp)
         IN WithOut(r, GetResult(GetRecordType[o.name], r.out))

\* TogglClient._delete: True once _request has returned.
DeleteResult(out) == IF out.kind = "raise" THEN out ELSE Returned(PyTrue)

\* A delete operation.
Delete(o, rl, t, over, resp) ==
    IF ~Validated(o) THEN RaisedBeforeRequest(rl, t, "ValueError")
    ELSE LET r == Request(rl, t, over, "DELETE", Url(o.ws, Collection(o.name), <<o.id>>),
                          None, resp)
         IN WithOut(r, DeleteResult(r.out))

\* TimeEntriesEndpoint.patch and ProjectUsersEndpoint.patch.
Patch(o, rl, t, over, resp) ==
    IF o.name = "time_entries.patch" /\ o.n > MaxPatchTimeEntries
    THEN RaisedBeforeRequest(rl, t, "ValueError")
    ELSE IF ~Validated(o) THEN RaisedBeforeRequest(rl, t, "ValueError")
    ELSE Request(rl, t, over, "PATCH", Url(o.ws, Collection(o.name), IdList(o.n)),
                 ListData(o.operations), resp)

\* ProjectUsersEndpoint.list.
ProjectUsersList(o, rl, t, over, resp) ==
    IF ~Validated(o) THEN RaisedBeforeRequest(rl, t, "ValueError")
    ELSE IF o.n > 0 /\ o.n > MaxProjectIds THEN RaisedBeforeRequest(rl, t, "ValueError")
    ELSE LET r == Request(rl, t, over, "GET", Url(o.ws, Collection(o.name), <<>>), None, resp)
         IN IF r.out.kind = "raise" THEN r
            ELSE IF r.out.value = PyNone
            THEN WithOut(r, Raised("TypeError"))             \* iterating None
            ELSE IF r.out.value[2] = "json_array"
            THEN WithOut(r, Raised("AttributeError"))        \* from_dict of a non-dict item
            ELSE WithOut(r, Returned(<<"list", "ProjectUser">>))

\* One tick of the clock is 1 / TicksPerSecond of a second.
TicksPerSecond == 2
\* int(x) and strftime("...%SZ") of a non-negative instant: the whole second.
WholeSecond(t) == t \div TicksPerSecond

\* A start that records the timestamp itself as the duration and an empty
\* stop.
StartDataStopped(o, t) ==
    [workspace_id |-> o.ws, description |-> Some("d"), duration |-> Some(WholeSecond(t)),
     start |-> Some(WholeSecond(t)), project_id |-> None, task_id |-> None, stop |-> Some(0)]

\* TimeEntriesEndpoint.start: the arguments it hands to create, at instant t.
StartData(o, t) ==
    [workspace_id |-> o.ws, description |-> Some("d"), duration |-> Some(0 - WholeSecond(t)),
     start |-> Some(WholeSecond(t)), project_id |-> None, task_id |-> None, stop |-> None]

\* TimeEntriesEndpoint.create's return: TimeEntry.from_dict(result).
CreateResult(out) ==
    IF out.kind = "raise" THEN out
    ELSE IF ~IsDictValue(out.value) THEN Raised("AttributeError")
    ELSE Returned(Record("TimeEntry"))

\* TimeEntriesEndpoint.start (through create).
Start(o, rl, t, over, resp) ==
    LET r == Request(rl, t, over, "POST", Url(o.ws, Collection(o.name), <<>>),
                     DictData(CleanParams(StartData(o, t))), resp)
    IN WithOut(r, CreateResult(r.out))

\* The arguments: ids, id counts around a limit, JSON Patch operations.
IdValues == {None, Some(0 - 1), Some(0), Some(5)}
IdCounts(limit) == {0, 2, limit, limit + 1}
OperationLists == {<<>>, <<"replace">>, <<"replace", "remove">>}
EndpointCalls ==
    [name : PatchOps, ws : IdValues, id : {None}, n : IdCounts(MaxPatchTimeEntries),
     operations : OperationLists]
    \cup [name : {"project_users.list"}, ws : IdValues, id : {None},
          n : IdCounts(MaxProjectIds), operations : {<<>>}]
    \cup [name : GetOps \cup DeleteOps, ws : IdValues, id : IdValues, n : {0},
          operations : {<<>>}]
    \cup [name : {"time_entries.start"}, ws : IdValues, id : {None}, n : {0},
          operations : {<<>>}]

\* The client before the call: fresh, or after an earlier request (made at
\* instant `last`, quota headers seen).  The instant of the call is varied
\* for the one operation that reads the clock itself.
InitEndpoints ==
    /\ op \in EndpointCalls
    /\ result = NoResult
    /\ sent_log = <<>>
    /\ now \in (IF op.name = "time_entries.start" THEN TicksPerSecond..MaxTime
                ELSE {TicksPerSecond})
    /\ \E mi \in 1..MaxInterval :
         \/ rate_limiter = RateLimiterInit(mi)
         \/ \E last \in {now - 1, now} :
              rate_limiter = [RateLimiterInit(mi) EXCEPT !.last_request_time = Some(last),
                                                         !.quota_remaining = Some(0),
                                                         !.quota_resets_in = Some(30)]
    /\ NoPagination
    /\ NoRecords
    /\ NoThreads
    /\ env = NoEnv
    /\ ctor = [called |-> TRUE, args |-> TokenArgs, raised |-> None]
    /\ client = TogglClientInit(TokenArgs, NoEnv).session
    /\ wire = None
    /\ pc = "idle"
    /\ response = None
    /\ outcome = NoOutcome
    /\ http_sent = 0
    /\ slept = 0
    /\ admitted = None

\* The endpoint call runs to its end as r; resp is the server's answer, seen
\* only if a request was sent.
Ends(r, resp) ==
    /\ result' = r.out
    /\ sent_log' = r.sent
    /\ rate_limiter' = r.rl
    /\ now' = r.now
    /\ response' = IF Len(r.sent) > 0 THEN Some(resp) ELSE None
    /\ UNCHANGED <<op, pc, outcome, http_sent, slept, admitted, authVars, wire, pageVars, modelVars, threads>>

CallGet ==
    /\ result.kind = "none" /\ op.name \in GetOps
    /\ \E resp \in EndpointResponses, over \in 0..MaxOversleep :
         Ends(GetById(op, rate_limiter, now, over, resp), resp)

CallDelete ==
    /\ result.kind = "none" /\ op.name \in DeleteOps
    /\ \E resp \in EndpointResponses, over \in 0..MaxOversleep :
         Ends(Delete(op, rate_limiter, now, over, resp), resp)

CallPatch ==
    /\ result.kind = "none" /\ op.name \in PatchOps
    /\ \E resp \in EndpointResponses, over \in 0..MaxOversleep :
         Ends(Patch(op, rate_limiter, now, over, resp), resp)

CallProjectUsersList ==
    /\ result.kind = "none" /\ op.name = "project_users.list"
    /\ \E resp \in EndpointResponses, over \in 0..MaxOversleep :
         Ends(ProjectUsersList(op, rate_limiter, now, over, resp), resp)

CallStart ==
    /\ result.kind = "none" /\ op.name = "time_entries.start"
    /\ \E resp \in EndpointResponses, over \in 0..MaxOversleep :
         Ends(Start(op, rate_limiter, now, over, resp), resp)

NextEndpoints == CallGet \/ CallDelete \/ CallPatch \/ CallProjectUsersList \/ CallStart

SpecEndpoints == InitEndpoints /\ [][NextEndpoints]_vars

\* --------------------------------------------------- claims on the endpoints
\* The step in which the endpoint call runs.
CallStep == result.kind = "none" /\ result'.kind # "none"

\* The call left the client as it was: nothing sent, limiter untouched.
NothingHappened == sent_log' = <<>> /\ rate_limiter' = rate_limiter

\* The bulk limit of the call in progress.
BulkLimit == IF op.name = "time_entries.patch" THEN MaxPatchTimeEntries ELSE MaxProjectIds

\* C11: time_entries.patch with more than 100 ids and project_users.list with
\* more than 200 project ids raise ValueError, send no HTTP request and leave
\* the rate limiter (last_request_time, quota) unchanged; with exactly 100
\* (respectively 200) ids no ValueError is raised.
C11_BulkLimitsBeforeRequest ==
    [][(CallStep /\ op.name \in {"time_entries.patch", "project_users.list"}) =>
          /\ op.n > BulkLimit => (result' = Raised("ValueError") /\ NothingHappened)
          /\ (op.n = BulkLimit /\ Validated(op)) => result' # Raised("ValueError")]_vars

\* C12: time_entries.patch (at most 100 ids) and project_users.patch, given a
\* non-empty list of JSON Patch operations, send exactly one PATCH request to
\* the URL of the comma-joined ids with that list as the JSON body, and return
\* the server's result dict.
C12_BulkPatchSendsOperations ==
    (/\ result.kind # "none"
     /\ op.name \in PatchOps
     /\ op.n <= BulkLimit
     /\ Validated(op)
     /\ Len(op.operations) > 0)
        => /\ Len(sent_log) = 1
           /\ sent_log[1].method = "PATCH"
           /\ sent_log[1].url = Url(op.ws, Collection(op.name), IdList(op.n))
           /\ ~IsNone(sent_log[1].json)
           /\ Val(sent_log[1].json).type = "list"
           /\ Val(sent_log[1].json).val = op.operations
           /\ (Ok(Val(response).status) /\ IsDictValue(Json(Val(response).body)))
                 => result = Returned(Json(Val(response).body))

\* C13: a get-by-id operation called with valid ids returns None for 404 and
\* for every other non-success status, raising nothing, and returns a record
\* only for a success response with a non-empty body.
C13_GetReturnsNoneOnFailure ==
    (result.kind # "none" /\ op.name \in GetOps /\ Validated(op))
        => /\ Len(sent_log) = 1
           /\ ~Ok(Val(response).status) => result = Returned(PyNone)
           /\ (result.kind = "return" /\ result.value[1] = "record")
                 => (Ok(Val(response).status) /\ HasContent(Val(response).body))

\* projects.get got 404 and returned None.
C13_Witness ==
    /\ op.name = "projects.get"
    /\ Validated(op)
    /\ Len(sent_log) = 1
    /\ Val(response).status = 404
    /\ result = Returned(PyNone)

\* An id argument that is None or not positive.
NoneOrNonPositive(x) == IsNone(x) \/ Val(x) <= 0

\* The call in progress validates an argument that is None or not positive.
GivenInvalidId ==
    \/ ValidatesWorkspace(op.name) /\ NoneOrNonPositive(op.ws)
    \/ ValidatesId(op.name) /\ NoneOrNonPositive(op.id)

\* C14: an operation that validates an id and is given None or a non-positive
\* id raises ValueError, sends no HTTP request and leaves the rate limiter
\* (last_request_time, quota_remaining, quota_resets_in) unchanged; a positive
\* id passes the validator unchanged, into the URL of the request.
C14_InvalidIdRaisesFirst ==
    [][CallStep =>
          /\ GivenInvalidId => (result' = Raised("ValueError") /\ NothingHappened)
          /\ (~GivenInvalidId /\ op.name \in GetOps \cup DeleteOps)
                => /\ Len(sent_log') = 1
                   /\ ValidatesWorkspace(op.name) => sent_log'[1].url.ws = op.ws
                   /\ ValidatesId(op.name) => sent_log'[1].url.ids = <<op.id>>]_vars

\* projects.delete with project id 0 on a client that had made a request
\* before: ValueError, nothing sent, the limiter as it was.
C14_Witness ==
    /\ op.name = "projects.delete"
    /\ op.ws = Some(5) /\ op.id = Some(0)
    /\ result = Raised("ValueError")
    /\ sent_log = <<>>
    /\ rate_limiter.quota_remaining = Some(0)
    /\ ~IsNone(rate_limiter.last_request_time)

\* C15: a delete operation returns True if and only if the server answered
\* the DELETE request with a success status, whatever the body; for every
\* non-success status it raises the mapped TogglError, and it never returns
\* False.
C15_DeleteTrueIffSuccess ==
    (result.kind # "none" /\ op.name \in DeleteOps /\ Validated(op))
        => /\ Len(sent_log) = 1 /\ sent_log[1].method = "DELETE"
           /\ result = Returned(PyTrue) <=> Ok(Val(response).status)
           /\ ~Ok(Val(response).status) => result = Raised(ErrorKind(Val(response).status))
           /\ result # Returned(PyFalse)

\* C20: time_entries.start sends exactly one POST to
\* /workspaces/{workspace_id}/time_entries whose body has duration = -(Unix
\* timestamp, in whole seconds, of the start instant), hence negative, a start
\* field for the same second and no stop field: a running entry.
C20_StartSendsRunningEntry ==
    [][(CallStep /\ op.name = "time_entries.start") =>
          /\ Len(sent_log') = 1
          /\ sent_log'[1].method = "POST"
          /\ sent_log'[1].url = Url(op.ws, "time_entries", <<>>)
          /\ ~IsNone(sent_log'[1].json)
          /\ Val(sent_log'[1].json).type = "dict"
          /\ LET body == Val(sent_log'[1].json).val
                 seconds == 0 - Val(body["duration"])
             IN /\ {"duration", "start"} \subseteq DOMAIN body
                /\ "stop" \notin DOMAIN body
                /\ seconds * TicksPerSecond <= now
                /\ now < (seconds + 1) * TicksPerSecond
                /\ Val(body["duration"]) < 0
                /\ body["start"] = Some(seconds)
                /\ IsRunning(FromDict("TimeEntry", body))]_vars

\* start was called in the middle of a second, by a client that had to wait
\* for its rate limiter: the request went out with the second of the call.
C20_Witness ==
    /\ op.name = "time_entries.start"
    /\ result.kind # "none"
    /\ Len(sent_log) = 1
    /\ Val(sent_log[1].json).val["duration"] = Some(0 - 1)
    /\ now > TicksPerSecond + 1

\* ----------------------------------------- two threads in wait_if_needed
\* The threads that share the client.
Threads == {1, 2}

\* A thread about to call wait_if_needed; wake is the instant time.sleep was
\* asked to end at and admitted the instant wait_if_needed returned.
ThreadStart == [pc |-> "check", wake |-> 0, admitted |-> None]

\* Two threads are about to call _request on one client, which is fresh or
\* has made a request at instant 0; RateLimiter has no lock.
InitThreads ==
    /\ threads = [t \in Threads |-> ThreadStart]
    /\ now \in 0..1
    /\ \E mi \in 1..MaxInterval :
         \/ rate_limiter = RateLimiterInit(mi)
         \/ rate_limiter = [RateLimiterInit(mi) EXCEPT !.last_request_time = Some(0)]
    /\ NoPagination
    /\ NoRecords
    /\ NoEndpoint
    /\ env = NoEnv
    /\ ctor = [called |-> TRUE, args |-> TokenArgs, raised |-> None]
    /\ client = TogglClientInit(TokenArgs, NoEnv).session
    /\ wire = None
    /\ pc = "idle"
    /\ response = None
    /\ outcome = NoOutcome
    /\ http_sent = 0
    /\ slept = 0
    /\ admitted = None

\* Everything but the clock, the limiter and the threads.
threadFrame ==
    <<pc, response, outcome, http_sent, slept, admitted, authVars, wire, pageVars, modelVars,
      endpointVars>>

\* `if self.last_request_time is not None`.
ThreadCheck(t) ==
    /\ threads[t].pc = "check"
    /\ threads' = [threads EXCEPT ![t].pc =
                      IF IsNone(rate_limiter.last_request_time) THEN "stamp" ELSE "elapsed"]
    /\ UNCHANGED <<now, rate_limiter, threadFrame>>

\* elapsed = time.time() - self.last_request_time; sleep_time, if
\* elapsed < min_interval.
ThreadElapsed(t) ==
    /\ threads[t].pc = "elapsed"
    /\ LET sleep_time == SleepTime(rate_limiter, now)
       IN threads' = IF sleep_time > 0
                     THEN [threads EXCEPT ![t].pc = "sleep", ![t].wake = now + sleep_time]
                     ELSE [threads EXCEPT ![t].pc = "stamp"]
    /\ UNCHANGED <<now, rate_limiter, threadFrame>>

\* time.sleep(sleep_time) returns, at the requested instant or later.
ThreadWake(t) ==
    /\ threads[t].pc = "sleep"
    /\ now >= threads[t].wake
    /\ threads' = [threads EXCEPT ![t].pc = "stamp"]
    /\ UNCHANGED <<now, rate_limiter, threadFrame>>

\* self.last_request_time = time.time(); wait_if_needed returns.
ThreadStamp(t) ==
    /\ threads[t].pc = "stamp"
    /\ rate_limiter' = [rate_limiter EXCEPT !.last_request_time = Some(now)]
    /\ threads' = [threads EXCEPT ![t].pc = "admitted", ![t].admitted = Some(now)]
    /\ UNCHANGED <<now, threadFrame>>

\* Time passes while the threads run.
ThreadTick ==
    /\ now < MaxTime
    /\ now' = now + 1
    /\ UNCHANGED <<rate_limiter, threads, threadFrame>>

NextThreads ==
    \/ ThreadTick
    \/ \E t \in Threads : ThreadCheck(t)
    \/ \E t \in Threads : ThreadElapsed(t)
    \/ \E t \in Threads : ThreadWake(t)
    \/ \E t \in Threads : ThreadStamp(t)

SpecThreads == InitThreads /\ [][NextThreads]_vars

\* The distance between two instants.
Apart(a, b) == IF a >= b THEN a - b ELSE b - a

\* C21: when two threads call _request on the same client concurrently, their
\* admissions (returns of wait_if_needed) are at least min_interval apart, in
\* every interleaving of the read of last_request_time, the sleep and the
\* write of last_request_time.
C21_ConcurrentAdmissionsApart ==
    \A t, u \in Threads :
        (t # u /\ threads[t].pc = "admitted" /\ threads[u].pc = "admitted")
            => Apart(Val(threads[t].admitted), Val(threads[u].admitted))
                   >= rate_limiter.min_interval

====
